---- MODULE Spec2Model ----
(***************************************************************************)
(* Model of the SSE streaming reader of stromboli-go (type Stream):        *)
(* the frame parser readEvent, the pull iterator Next/Event/Err, Close,    *)
(* and the push iterator EventsWithContext with its reader goroutine and   *)
(* its cancellation watcher.                                               *)
(*                                                                         *)
(* A byte string is a sequence of one-character strings.  The character    *)
(* "B" abbreviates a run of BulkLen filler bytes (a payload far too long   *)
(* to write out), so that lines near maxEventSize can be expressed; every  *)
(* length is computed with ByteLen, which counts "B" as BulkLen bytes.     *)
(***************************************************************************)
EXTENDS Integers, Sequences, FiniteSets, TLC

VARIABLES
    lines,      \* the wire, as the list of lines the server wrote (without "\n")
    cut,        \* TRUE: the last line of the wire lacks its terminating "\n"
    wend,       \* what the body's Read does once the bytes are used up
    wire,       \* the bytes of the response body
    pos,        \* index in wire of the next byte the bufio.Reader hands out
    current,    \* Stream.current
    err,        \* Stream.err
    closed,     \* Stream.closed
    bodyCloses, \* number of calls of resp.Body.Close()
    emitted,    \* the events of the successful Next() calls so far, in order,
                \* each with the reader's position after it was read
    last,       \* the last call made on the Stream and what it returned
    pcR,        \* the reader goroutine of EventsWithContext
    pcW,        \* the cancellation watcher goroutine
    pcU,        \* a Close() called by the consumer while the reader runs
    storing,    \* the error the reader goroutine's Next() is storing in
                \* Stream.err, ErrNil when it is storing none
    pcN,        \* a Next() called by the owner of the Stream while another
                \* goroutine may call Close()
    ctxDone,    \* ctx.Done() is closed
    doneClosed, \* the channel done is closed
    chClosed,   \* the events channel is closed
    sendEv,     \* the copy of the event the reader is sending
    received,   \* the events the consumer received from the channel
    receiving,  \* the consumer is still receiving from the channel
    heap,       \* the StreamEvent objects allocated and handed out so far; the
                \* address of an object is its index
    curPtr,     \* the address Stream.current holds, 0 for nil
    recvPtr,    \* the addresses the consumer received from the channel
    pushPos,    \* the reader's position when EventsWithContext was called, 0
                \* before the call
    est,        \* the Client.Stream call: its inputs, whether it was made and
                \* what it returned
    tok         \* Client.token, Client.mu and the SetToken and getToken calls
                \* in progress

wireVars == <<lines, cut, wend, wire>>
streamVars == <<pos, current, err, closed, bodyCloses, emitted>>
pushVars ==
    <<pcR, pcW, pcU, ctxDone, doneClosed, chClosed, sendEv, received, receiving, storing>>
heapVars == <<heap, curPtr, recvPtr>>
vars == <<wireVars, streamVars, last, pushVars, heapVars, pushPos, est, tok, pcN>>

----------------------------------------------------------------------------
(* Bounds of the model *)

MaxLines == 3
MaxPushLines == 3
MaxLiveLines == 1
MaxOver == 1
MaxSpaces == 3
MaxIgnoreLines == 3
NSetters == 2
NGetters == 2

----------------------------------------------------------------------------
(* Constants of the program *)

maxEventSize == 10 * 1024 * 1024

\* Errors.  ErrNil is Go's nil error, ErrEOF is io.EOF, ErrClosed the error of a
\* read of a closed response body.
ErrNil == "nil"
ErrEOF == "EOF"
ErrRead == "read: connection reset"
ErrSize == "event exceeds maximum size"
ErrClosed == "http: read on closed response body"

\* What a read of Stream.err gives while another goroutine is assigning it: an
\* interface value with one of its two words written, not nil and not the
\* error being stored.
ErrTorn == "torn"

\* Not an error: the body has no more bytes yet and the read blocks.
Stall == "stall"

----------------------------------------------------------------------------
(* Bytes and strings *)

LF == "\n"
CR == "\r"

\* Bytes stood for by the character "B".
BulkLen == maxEventSize - 6

RECURSIVE ByteLen(_)
ByteLen(s) ==
    IF s = <<>> THEN 0
    ELSE (IF Head(s) = "B" THEN BulkLen ELSE 1) + ByteLen(Tail(s))

\* strings.HasPrefix
HasPrefix(s, p) == Len(s) >= Len(p) /\ SubSeq(s, 1, Len(p)) = p

\* strings.CutPrefix: the string without the prefix and whether it was found
CutPrefix(s, p) ==
    IF HasPrefix(s, p)
    THEN [after |-> SubSeq(s, Len(p) + 1, Len(s)), found |-> TRUE]
    ELSE [after |-> s, found |-> FALSE]

\* strings.TrimSuffix, for a one-byte suffix
TrimSuffix(s, c) ==
    IF Len(s) >= 1 /\ s[Len(s)] = c THEN SubSeq(s, 1, Len(s) - 1) ELSE s

pData == <<"d", "a", "t", "a", ":">>
pEvent == <<"e", "v", "e", "n", "t", ":">>
pId == <<"i", "d", ":">>

----------------------------------------------------------------------------
(* StreamEvent and the nil *StreamEvent *)

NilEvent == [nil |-> TRUE, Type |-> <<>>, Data |-> <<>>, ID |-> <<>>]
EmptyEvent == [nil |-> FALSE, Type |-> <<>>, Data |-> <<>>, ID |-> <<>>]

----------------------------------------------------------------------------
(* bufio.Reader.ReadString('\n') at position p of the bytes w, whose end is *)
(* e: the bytes up to and including the first "\n"; when the body ends      *)
(* before a "\n", the bytes read so far together with the body's error.     *)

ReadString(w, e, p) ==
    LET nl == {j \in p..Len(w) : w[j] = LF} IN
    IF nl /= {}
    THEN LET j == CHOOSE k \in nl : \A m \in nl : k <= m IN
         [line |-> SubSeq(w, p, j), err |-> ErrNil, pos |-> j + 1]
    ELSE [line |-> SubSeq(w, p, Len(w)), err |-> e, pos |-> Len(w) + 1]

----------------------------------------------------------------------------
(* Stream.readEvent *)

FieldValue_KeepSpace(line, prefix) == CutPrefix(line, prefix).after

\* The value of a field line: the prefix with one space cut, else the bare prefix.
FieldValue(line, prefix) ==
    LET c == CutPrefix(line, prefix \o <<" ">>) IN
    IF c.found THEN c.after ELSE CutPrefix(line, prefix).after

AppendData_NoSeparator(event, hasData, data) ==
    IF hasData THEN [event EXCEPT !.Data = @ \o data]
    ELSE [event EXCEPT !.Data = data]

\* case "data:": the first payload sets Data, a later one is appended after "\n".
AppendData(event, hasData, data) ==
    IF hasData THEN [event EXCEPT !.Data = @ \o <<LF>> \o data]
    ELSE [event EXCEPT !.Data = data]

ApplyField_UnknownIsData(event, hasData, line) ==
    IF HasPrefix(line, pData) THEN AppendData(event, hasData, FieldValue(line, pData))
    ELSE IF HasPrefix(line, pEvent) THEN [event EXCEPT !.Type = FieldValue(line, pEvent)]
    ELSE IF HasPrefix(line, pId) THEN [event EXCEPT !.ID = FieldValue(line, pId)]
    ELSE AppendData(event, hasData, line)

\* The switch over the line's prefix; other lines leave the event as it is.
ApplyField(event, hasData, line) ==
    IF HasPrefix(line, pData) THEN AppendData(event, hasData, FieldValue(line, pData))
    ELSE IF HasPrefix(line, pEvent) THEN [event EXCEPT !.Type = FieldValue(line, pEvent)]
    ELSE IF HasPrefix(line, pId) THEN [event EXCEPT !.ID = FieldValue(line, pId)]
    ELSE event

SetsHasData_AnyField(hasData, line) ==
    hasData \/ HasPrefix(line, pData) \/ HasPrefix(line, pEvent) \/ HasPrefix(line, pId)

\* hasData after the switch
SetsHasData(hasData, line) == hasData \/ HasPrefix(line, pData)

\* The two trims of the line's end.
TrimLine(line) == TrimSuffix(TrimSuffix(line, LF), CR)

ExceedsMax_Never(totalSize) == FALSE

\* The size guard.
ExceedsMax(totalSize) == totalSize > maxEventSize

OnReadErr_NoDataCheck(e, hasData, event) ==
    IF e = ErrEOF THEN [event |-> event, err |-> ErrNil]
    ELSE [event |-> NilEvent, err |-> e]

OnReadErr_AnyError(e, hasData, event) ==
    IF hasData THEN [event |-> event, err |-> ErrNil]
    ELSE [event |-> NilEvent, err |-> e]

\* A read error: io.EOF with data pending returns the event, anything else the error.
OnReadErr(e, hasData, event) ==
    IF e = ErrEOF /\ hasData THEN [event |-> event, err |-> ErrNil]
    ELSE [event |-> NilEvent, err |-> e]

EndsEvent_AnyBlank(line, hasData) == line = <<>>

\* An empty line ends the event if it has data.
EndsEvent(line, hasData) == line = <<>> /\ hasData

\* The loop of readEvent from position p.  reads counts the ReadString calls.
RECURSIVE readLoop(_, _, _, _, _, _, _)
readLoop(w, e, p, event, hasData, totalSize, reads) ==
    LET r == ReadString(w, e, p) IN
    IF r.err /= ErrNil
    THEN LET o == OnReadErr(r.err, hasData, event) IN
         [event |-> o.event, err |-> o.err, pos |-> r.pos, reads |-> reads + 1]
    ELSE LET size == totalSize + ByteLen(r.line)
             line == TrimLine(r.line)
         IN
         IF ExceedsMax(size)
         THEN [event |-> NilEvent, err |-> ErrSize, pos |-> r.pos, reads |-> reads + 1]
         ELSE IF EndsEvent(line, hasData)
         THEN [event |-> event, err |-> ErrNil, pos |-> r.pos, reads |-> reads + 1]
         ELSE IF line = <<>>
         THEN readLoop(w, e, r.pos, event, hasData, size, reads + 1)
         ELSE readLoop(w, e, r.pos, ApplyField(event, hasData, line),
                       SetsHasData(hasData, line), size, reads + 1)

readEvent(w, e, p) == readLoop(w, e, p, EmptyEvent, FALSE, 0, 0)

----------------------------------------------------------------------------
(* The wires of the model *)

Blank == <<>>
BlankCR == <<CR>>
DataA == pData \o <<" ", "a">>
DataBCR == pData \o <<"b", CR>>
DataEmpty == pData
EventT == pEvent \o <<" ", "t">>
IdOne == pId \o <<"1">>
Comment == <<":", "c">>
DataBulk == pData \o <<"B">>
CommentBulk == <<":", "B">>

LineSet == {Blank, BlankCR, DataA, DataBCR, DataEmpty, EventT, IdOne, Comment, DataBulk, CommentBulk}

LineLists == UNION {[1..n -> LineSet] : n \in 0..MaxLines}

\* The wires of the runs with goroutines.
PushLineSet == {Blank, DataA, DataBCR, DataBulk}

PushLineLists == UNION {[1..n -> PushLineSet] : n \in 0..MaxPushLines}

\* The bytes of a list of lines: each line and its "\n", the last "\n" left out if c.
RECURSIVE Flatten(_, _)
Flatten(ls, c) ==
    IF ls = <<>> THEN <<>>
    ELSE IF Len(ls) = 1 THEN (IF c THEN ls[1] ELSE ls[1] \o <<LF>>)
    ELSE ls[1] \o <<LF>> \o Flatten(Tail(ls), c)

----------------------------------------------------------------------------
(* Client.Stream: the call that establishes a stream.  A call is given by   *)
(* its request, its context, the client's token and what the transport and  *)
(* the server answer; a message is modelled by the number of leading bytes  *)
(* of the response body it holds.                                           *)

maxErrorBodySize == 4096
StatusOK == 200

ReqNil == "nil"
ReqNoPrompt == "noPrompt"
ReqOK == "ok"

\* What c.httpClient.Do returns as its error.
DoOK == "none"
DoCanceled == "context.Canceled"
DoDeadline == "context.DeadlineExceeded"
DoFailed == "other"

\* Content-Type values
CtSSE == <<"t", "e", "x", "t", "/", "e", "v", "e", "n", "t", "-",
           "s", "t", "r", "e", "a", "m">>
CtSSECharset == CtSSE \o <<";", " ", "c", "h", "a", "r", "s", "e", "t", "=",
                           "u", "t", "f", "-", "8">>
CtNone == <<>>
CtPlain == <<"t", "e", "x", "t", "/", "p", "l", "a", "i", "n">>
CtShort == <<"t", "e", "x", "t", "/", "e", "v", "e", "n", "t">>
CtUpper == <<"T">> \o Tail(CtSSE)

NoError == [nil |-> TRUE, Code |-> "", Status |-> 0, body |-> 0]

\* newError and wrapError: a non-nil *Error
newError(code, status, body) ==
    [nil |-> FALSE, Code |-> code, Status |-> status, body |-> body]

\* Client.handleError, for the errors http.Client.Do returns
handleError(e) ==
    IF e = DoOK THEN NoError
    ELSE IF e = DoCanceled THEN newError("CANCELLED", 0, 0)
    ELSE IF e = DoDeadline THEN newError("TIMEOUT", 408, 0)
    ELSE newError("REQUEST_FAILED", 0, 0)

LimitRead_Unlimited(n) == n

\* io.ReadAll(io.LimitReader(resp.Body, maxErrorBodySize)) on a body of n
\* bytes: how many of its leading bytes are read.
LimitRead(n) == IF n > maxErrorBodySize THEN maxErrorBodySize ELSE n

IsEventStream_Exact(ct) == ct = CtSSE

IsEventStream_Any(ct) == TRUE

\* strings.HasPrefix(contentType, "text/event-stream")
IsEventStream(ct) == HasPrefix(ct, CtSSE)

InvalidRequest_NilOnly(req) == req = ReqNil

\* The two checks on the request
InvalidRequest(req) == req = ReqNil \/ req = ReqNoPrompt

\* No deadline, no timeout
NoDeadline == 0

\* What a call returns and does.  stream: a non-nil *Stream is returned;
\* error: the error returned; requests: calls of httpClient.Do; closes: calls
\* of resp.Body.Close(); bodyRead: bytes read from the body; auth: the request
\* carried an Authorization header; bound: the seconds after which the
\* context of the request ends it, 0 when nothing does.
Outcome(stream, error, requests, closes, bodyRead, auth, bound) ==
    [stream |-> stream, error |-> error, requests |-> requests, closes |-> closes,
     bodyRead |-> bodyRead, auth |-> auth, bound |-> bound]

\* The deadline of the ctx handed to http.NewRequestWithContext; the client
\* made by NewClient has an http.Client without Timeout.
RequestBound(in) == in.ctxDeadline

ClosesOnDoErr_Never(in) == 0

\* if resp != nil && resp.Body != nil { _ = resp.Body.Close() }
ClosesOnDoErr(in) == IF in.respOnErr THEN 1 ELSE 0

StreamResult(in) ==
    IF InvalidRequest(in.req)
    THEN Outcome(FALSE, newError("BAD_REQUEST", 400, 0), 0, 0, 0, FALSE, NoDeadline)
    ELSE IF ~in.urlOK
    THEN Outcome(FALSE, newError("INVALID_URL", 0, 0), 0, 0, 0, FALSE, NoDeadline)
    ELSE IF in.ctxNil
    THEN Outcome(FALSE, newError("REQUEST_FAILED", 0, 0), 0, 0, 0, FALSE, NoDeadline)
    ELSE LET auth == in.token /= ""
             bound == RequestBound(in) IN
         IF in.doErr /= DoOK
         THEN Outcome(FALSE, handleError(in.doErr), 1, ClosesOnDoErr(in), 0, auth,
                      bound)
         ELSE IF in.status /= StatusOK
         THEN Outcome(FALSE,
                      newError("STREAM_ERROR", in.status, LimitRead(in.bodyLen)),
                      1, 1, LimitRead(in.bodyLen), auth, bound)
         ELSE IF ~IsEventStream(in.ctype)
         THEN Outcome(FALSE, newError("INVALID_RESPONSE", in.status, 0), 1, 1, 0, auth, bound)
         ELSE Outcome(TRUE, NoError, 1, 0, 0, auth, bound)

\* The calls of the model.  A Client made by NewClient has a base URL that
\* parses; a transport error may come with or without a response.
BodyLens == {0, 1} \cup {maxErrorBodySize + d : d \in (0 - MaxOver)..MaxOver}

\* Seconds: the client's streamTimeout as WithStreamTimeout left it (a d <= 0
\* leaves it 0) and the deadline of the caller's context.
StreamTimeouts == {NoDeadline, 300}
CtxDeadlines == {NoDeadline, 60}

Calls ==
    [req : {ReqNil, ReqNoPrompt, ReqOK},
     urlOK : {TRUE},
     ctxNil : BOOLEAN,
     token : {"", "tok"},
     doErr : {DoOK, DoCanceled, DoDeadline, DoFailed},
     respOnErr : BOOLEAN,
     status : {StatusOK, 201, 404, 500},
     ctype : {CtSSE, CtSSECharset, CtNone, CtPlain, CtShort, CtUpper},
     bodyLen : BodyLens,
     streamTimeout : StreamTimeouts,
     ctxDeadline : CtxDeadlines]

\* The call that returned the Stream whose use the rest of the model follows.
ValidCall ==
    [req |-> ReqOK, urlOK |-> TRUE, ctxNil |-> FALSE, token |-> "", doErr |-> DoOK,
     respOnErr |-> FALSE, status |-> StatusOK, ctype |-> CtSSE, bodyLen |-> 0,
     streamTimeout |-> NoDeadline, ctxDeadline |-> NoDeadline]

NoOutcome == Outcome(FALSE, NoError, 0, 0, 0, FALSE, NoDeadline)

----------------------------------------------------------------------------
(* Client.token and Client.mu.  A token is the sequence of the code points   *)
(* of its characters.                                                       *)

TokEmpty == <<>>
TokInit == <<105>>
TokA == <<97>>
TokB == <<98>>

\* Tokens with a line feed, a form feed, DEL.
TokBad == <<120, 10>>
TokFF == <<97, 12, 98>>
TokDel == <<97, 127>>

\* What a reader that races a writer can see of a string being assigned: no
\* token.
TokTorn == <<0 - 2>>

\* c == '\r' || c == '\n' || c < 0x20 || c == 0x7f
ControlChars == {13, 10} \cup 0..31 \cup {127}

\* isValidToken: no CR, LF or other control character
isValidToken(t) == \A i \in 1..Len(t) : t[i] \notin ControlChars

\* A token no getToken call has returned yet.
NotRead == <<0 - 1>>

\* sync.RWMutex: RLock returns while no writer holds the lock; Lock returns
\* while neither a writer nor a reader holds it.
CanRLock_Always(t) == TRUE

CanRLock(t) == t.writer = 0

CanLock(t) == t.writer = 0 /\ t.readers = {}

\* The state of a client on which no SetToken or getToken call runs.
NoTokenCalls ==
    [token |-> TokEmpty, first |-> TokEmpty, started |-> {},
     writer |-> 0, readers |-> {},
     pcS |-> <<>>, arg |-> <<>>, pcG |-> <<>>, got |-> <<>>]

----------------------------------------------------------------------------
(* The state after Client.Stream returned a Stream *)

NewStream ==
    /\ est = [call |-> ValidCall, called |-> TRUE, out |-> StreamResult(ValidCall)]
    /\ tok = NoTokenCalls
    /\ wire = Flatten(lines, cut)
    /\ pos = 1
    /\ current = NilEvent
    /\ err = ErrNil
    /\ closed = FALSE
    /\ bodyCloses = 0
    /\ emitted = <<>>
    /\ last = [op |-> "new", ret |-> FALSE, from |-> 1, reads |-> 0, live |-> FALSE]
    /\ pcR = "idle"
    /\ pcW = "none"
    /\ pcU = "idle"
    /\ pcN = "idle"
    /\ storing = ErrNil
    /\ ctxDone = FALSE
    /\ doneClosed = FALSE
    /\ chClosed = FALSE
    /\ sendEv = NilEvent
    /\ received = <<>>
    /\ receiving = TRUE
    /\ heap = <<>>
    /\ curPtr = 0
    /\ recvPtr = <<>>
    /\ pushPos = 0

Init ==
    /\ lines \in LineLists
    /\ cut \in (IF lines = <<>> THEN {FALSE} ELSE BOOLEAN)
    /\ wend \in {ErrEOF, ErrRead}
    /\ NewStream

InitPush ==
    /\ lines \in PushLineLists
    /\ cut = FALSE
    /\ wend \in {ErrEOF, ErrRead, Stall}
    /\ NewStream

\* Bodies of one event whose first line is a field written with k spaces after
\* the colon: a data: line and a blank line, or an event: or id: line, a data:
\* line and a blank line.
Spaces(k) == [i \in 1..k |-> " "]

FieldLine(prefix, k, text) == prefix \o Spaces(k) \o text

FieldPrefixes == {pData, pEvent, pId}

FieldTexts == {<<>>, <<"a">>}

FieldLineLists ==
    {IF prefix = pData
     THEN <<FieldLine(prefix, k, text), Blank>>
     ELSE <<FieldLine(prefix, k, text), DataA, Blank>> :
        prefix \in FieldPrefixes, k \in 0..MaxSpaces, text \in FieldTexts}

\* Lines the reader ignores: a retry: line, comments, a line with no known
\* prefix.
Retry == <<"r", "e", "t", "r", "y", ":", "5">>
Unknown == <<"f", "o", "o">>
IgnoredSet == {Retry, Comment, Unknown, CommentBulk}

\* The wires with ignored lines.  A body cut off inside its last line is cut
\* inside a line that is not ignored.
IgnoreLineSet == {Blank, DataA, EventT, IdOne, DataBulk} \cup IgnoredSet

IgnoreLineLists == UNION {[1..n -> IgnoreLineSet] : n \in 0..MaxIgnoreLines}

InitIgnore ==
    /\ lines \in IgnoreLineLists
    /\ cut \in BOOLEAN
    /\ cut => (lines /= <<>> /\ lines[Len(lines)] \notin IgnoredSet \cup {Blank})
    /\ wend \in {ErrEOF, ErrRead}
    /\ NewStream

InitField ==
    /\ lines \in FieldLineLists
    /\ cut = FALSE
    /\ wend \in {ErrEOF, ErrRead}
    /\ NewStream

----------------------------------------------------------------------------
(* Stream.Next *)

Terminal_ClosedOnly(c, e) == c

\* The first check of Next: a closed or failed stream is not read.
Terminal(c, e) == c \/ e /= ErrNil

StoredErr_KeepsEOF(e) == e

\* The error Next stores: io.EOF is a clean end and is not stored.
StoredErr(e) == IF e /= ErrEOF THEN e ELSE ErrNil

NewEvent_InPlace(h, cur) == IF cur = 0 THEN Len(h) + 1 ELSE cur

\* event := &StreamEvent{}: the address of the object a readEvent call fills,
\* one that did not exist before the call.
NewEvent(h, cur) == Len(h) + 1

\* The heap with the event ev written at address a.
Store(h, a, ev) == IF a = Len(h) + 1 THEN Append(h, ev) ELSE [h EXCEPT ![a] = ev]

\* What Next does with the result r of readEvent.
NextStores_ClearsOnFailure(r) ==
    /\ pos' = r.pos
    /\ IF r.err /= ErrNil
       THEN /\ err' = StoredErr(r.err)
            /\ current' = NilEvent
            /\ curPtr' = 0
            /\ UNCHANGED <<emitted, heap>>
       ELSE /\ current' = r.event
            /\ curPtr' = NewEvent(heap, curPtr)
            /\ heap' = Store(heap, NewEvent(heap, curPtr), r.event)
            /\ emitted' = Append(emitted, [ev |-> r.event, at |-> r.pos])
            /\ UNCHANGED err
    /\ last' = [op |-> "Next", ret |-> (r.err = ErrNil), from |-> pos,
                reads |-> r.reads, live |-> TRUE]

\* The stores of a Next() that called readEvent and got r: a failure stores at
\* most the error, a success stores the event.
NextStores(r) ==
    /\ pos' = r.pos
    /\ IF r.err /= ErrNil
       THEN /\ err' = StoredErr(r.err)
            /\ UNCHANGED <<current, emitted, heap, curPtr>>
       ELSE /\ current' = r.event
            /\ curPtr' = NewEvent(heap, curPtr)
            /\ heap' = Store(heap, NewEvent(heap, curPtr), r.event)
            /\ emitted' = Append(emitted, [ev |-> r.event, at |-> r.pos])
            /\ UNCHANGED err
    /\ last' = [op |-> "Next", ret |-> (r.err = ErrNil), from |-> pos,
                reads |-> r.reads, live |-> TRUE]

\* What readEvent can return.  On an open body, what the bytes give.  Once the
\* body is closed the bufio.Reader still hands out the bytes it had fetched, up to
\* some f, and the body's own end if it had fetched that too; a read past them
\* fails with ErrClosed.
ReadOutcomes ==
    IF bodyCloses = 0
    THEN {readEvent(wire, wend, pos)}
    ELSE {readEvent(SubSeq(wire, 1, f), ErrClosed, pos) : f \in (pos - 1)..Len(wire)}
         \cup (IF wend /= Stall THEN {readEvent(wire, wend, pos)} ELSE {})

\* Next called by the owner of the Stream, no reader goroutine running: the
\* check of closed and err.  Close(), which another goroutine may call, can run
\* between this check and the end of the read.
N_Check ==
    /\ pcN = "idle"
    /\ pcR \in {"idle", "done"}
    /\ IF Terminal(closed, err)
       THEN /\ last' = [op |-> "Next", ret |-> FALSE, from |-> pos, reads |-> 0,
                        live |-> FALSE]
            /\ UNCHANGED pcN
       ELSE /\ pcN' = "read"
            /\ UNCHANGED last
    /\ UNCHANGED <<wireVars, est, tok, pushPos, heapVars, streamVars, pushVars>>

\* The rest of Next: readEvent returns (a read that finds the body stalled
\* does not) and Next stores the result.
N_Read ==
    /\ pcN = "read"
    /\ \E r \in ReadOutcomes :
         /\ r.err /= Stall
         /\ NextStores(r)
    /\ pcN' = "idle"
    /\ UNCHANGED <<wireVars, est, tok, pushPos, closed, bodyCloses, pushVars, recvPtr>>

Next == N_Check \/ N_Read

(* Stream.Event, called by the owner of the Stream *)
Event ==
    /\ pcN = "idle"
    /\ last' = [op |-> "Event", ret |-> current, from |-> pos, reads |-> 0, live |-> FALSE]
    /\ UNCHANGED <<wireVars, est, tok, pcN, storing, pushPos, heapVars, streamVars, pushVars>>

\* What `return s.err` can give: the field, or, read without synchronisation
\* while the reader goroutine assigns it, a half-written value.
ErrReads(e, assigning) == IF assigning THEN {e, ErrTorn} ELSE {e}

(* Stream.Err, called by the owner of the Stream *)
Err ==
    /\ pcN = "idle"
    /\ \E e \in ErrReads(err, pcR = "storeErr") :
          last' = [op |-> "Err", ret |-> e, from |-> pos, reads |-> 0, live |-> FALSE]
    /\ UNCHANGED <<wireVars, est, tok, pcN, storing, pushPos, heapVars, streamVars, pushVars>>

Swap_NotObserved(c) == FALSE

\* What closed.Swap(true) returns: the flag as it was before the call set it.
Swap(c) == c

(* Stream.Close, called on a Stream that Client.Stream returned, with no     *)
(* other call in progress                                                   *)
Close ==
    /\ est.out.stream
    /\ pcU = "idle"
    /\ pcN = "idle"
    /\ closed' = TRUE
    /\ bodyCloses' = IF Swap(closed) THEN bodyCloses ELSE bodyCloses + 1
    /\ last' = [op |-> "Close", ret |-> ErrNil, from |-> pos, reads |-> 0, live |-> FALSE]
    /\ UNCHANGED <<wireVars, est, tok, pcN, storing, pushPos, heapVars, pos, current, err, emitted,
                   pushVars>>

NextStep == Next \/ Event \/ Err \/ Close

Spec == Init /\ [][NextStep]_vars

SpecField == InitField /\ [][NextStep]_vars

SpecIgnore == InitIgnore /\ [][NextStep]_vars

----------------------------------------------------------------------------
(* Stream.EventsWithContext: the call, the reader goroutine (R_), the       *)
(* cancellation watcher (W_), the context (Cancel) and the consumer.        *)

\* The call: makes the channel and starts the reader goroutine.
EventsWithContext ==
    /\ pcR = "idle"
    /\ pcN = "idle"
    /\ pcR' = "start"
    /\ pushPos' = pos
    /\ last' = [op |-> "EventsWithContext", ret |-> FALSE, from |-> pos, reads |-> 0,
                live |-> FALSE]
    /\ UNCHANGED <<wireVars, est, tok, pcN, storing, heapVars, streamVars, pcW, pcU, ctxDone,
                   doneClosed, chClosed, sendEv, received, receiving>>

\* The reader makes done and starts the watcher.
R_Start ==
    /\ pcR = "start"
    /\ pcR' = "check"
    /\ pcW' = "wait"
    /\ UNCHANGED <<wireVars, est, tok, pcN, storing, pushPos, heapVars, streamVars, last, pcU, ctxDone,
                   doneClosed, chClosed, sendEv, received, receiving>>

\* for s.Next(): the first check of Next.
R_Check ==
    /\ pcR = "check"
    /\ IF Terminal(closed, err)
       THEN /\ pcR' = "exit"
            /\ last' = [op |-> "Next", ret |-> FALSE, from |-> pos, reads |-> 0,
                        live |-> FALSE]
       ELSE /\ pcR' = "read"
            /\ UNCHANGED last
    /\ UNCHANGED <<wireVars, est, tok, pcN, storing, pushPos, heapVars, streamVars, pcW, pcU, ctxDone,
                   doneClosed, chClosed, sendEv, received, receiving>>

\* The rest of Next: readEvent returns (a stalled read does not).  On an event
\* or io.EOF Next stores the result and returns, and on true the loop body
\* copies the event; on any other error Next begins the assignment s.err = err.
R_Read ==
    /\ pcR = "read"
    /\ \E r \in ReadOutcomes :
         /\ r.err /= Stall
         /\ IF StoredErr(r.err) = ErrNil
            THEN /\ NextStores(r)
                 /\ pcR' = IF r.err = ErrNil THEN "send" ELSE "exit"
                 /\ sendEv' = IF r.err = ErrNil THEN r.event ELSE sendEv
                 /\ UNCHANGED storing
            ELSE /\ pos' = r.pos
                 /\ storing' = r.err
                 /\ pcR' = "storeErr"
                 /\ last' = [op |-> "Next", ret |-> FALSE, from |-> pos,
                             reads |-> r.reads, live |-> TRUE]
                 /\ UNCHANGED <<err, current, emitted, heap, curPtr, sendEv>>
    /\ UNCHANGED <<wireVars, est, tok, pcN, pushPos, closed, bodyCloses, pcW, pcU,
                   ctxDone, doneClosed, chClosed, received, receiving, recvPtr>>

\* s.err = err completes and Next returns false.
R_StoreErr ==
    /\ pcR = "storeErr"
    /\ err' = StoredErr(storing)
    /\ storing' = ErrNil
    /\ pcR' = "exit"
    /\ UNCHANGED <<wireVars, est, tok, pcN, pushPos, heapVars, pos, current, closed,
                   bodyCloses, emitted, last, pcW, pcU, ctxDone, doneClosed, chClosed,
                   sendEv, received, receiving>>

\* event := *s.current and select: case ch <- &event.  The consumer gets the
\* address of the copy, an object of its own.
R_Send ==
    /\ pcR = "send"
    /\ receiving
    /\ received' = Append(received, sendEv)
    /\ heap' = Append(heap, heap[curPtr])
    /\ recvPtr' = Append(recvPtr, Len(heap) + 1)
    /\ pcR' = "check"
    /\ UNCHANGED <<wireVars, est, tok, pcN, storing, pushPos, streamVars, last, pcW, pcU, ctxDone,
                   doneClosed, chClosed, sendEv, receiving, curPtr>>

\* select: case <-ctx.Done(): return
R_SendCancelled ==
    /\ pcR = "send"
    /\ ctxDone
    /\ pcR' = "exit"
    /\ UNCHANGED <<wireVars, est, tok, pcN, storing, pushPos, heapVars, streamVars, last, pcW, pcU,
                   ctxDone, doneClosed, chClosed, sendEv, received, receiving>>

R_CloseDone_Forgotten ==
    /\ pcR = "exit"
    /\ pcR' = "closeCh"
    /\ UNCHANGED <<wireVars, est, tok, pcN, storing, pushPos, heapVars, streamVars, last, pcW, pcU,
                   ctxDone, doneClosed, chClosed, sendEv, received, receiving>>

\* defer close(done)
R_CloseDone ==
    /\ pcR = "exit"
    /\ doneClosed' = TRUE
    /\ pcR' = "closeCh"
    /\ UNCHANGED <<wireVars, est, tok, pcN, storing, pushPos, heapVars, streamVars, last, pcW, pcU,
                   ctxDone, chClosed, sendEv, received, receiving>>

\* The first defer: close(ch)
R_CloseCh ==
    /\ pcR = "closeCh"
    /\ chClosed' = TRUE
    /\ pcR' = "done"
    /\ UNCHANGED <<wireVars, est, tok, pcN, storing, pushPos, heapVars, streamVars, last, pcW, pcU,
                   ctxDone, doneClosed, sendEv, received, receiving>>

W_Cancelled_NoClose ==
    /\ pcW = "wait"
    /\ ctxDone
    /\ pcW' = "done"
    /\ UNCHANGED <<wireVars, est, tok, pcN, storing, pushPos, heapVars, streamVars, last, pcR, pcU,
                   ctxDone, doneClosed, chClosed, sendEv, received, receiving>>

\* The watcher's select takes <-ctx.Done() and calls Close: closed.Swap(true).
W_Cancelled ==
    /\ pcW = "wait"
    /\ ctxDone
    /\ closed' = TRUE
    /\ pcW' = IF Swap(closed) THEN "done" ELSE "closing"
    /\ UNCHANGED <<wireVars, est, tok, pcN, storing, pushPos, heapVars, pos, current, err, bodyCloses,
                   emitted, last, pcR, pcU, ctxDone, doneClosed, chClosed, sendEv,
                   received, receiving>>

\* The watcher's Close closes the body.
W_BodyClose ==
    /\ pcW = "closing"
    /\ bodyCloses' = bodyCloses + 1
    /\ pcW' = "done"
    /\ UNCHANGED <<wireVars, est, tok, pcN, storing, pushPos, heapVars, pos, current, err, closed,
                   emitted, last, pcR, pcU, ctxDone, doneClosed, chClosed, sendEv,
                   received, receiving>>

\* The watcher's select takes <-done.
W_Done ==
    /\ pcW = "wait"
    /\ doneClosed
    /\ pcW' = "done"
    /\ UNCHANGED <<wireVars, est, tok, pcN, storing, pushPos, heapVars, streamVars, last, pcR, pcU,
                   ctxDone, doneClosed, chClosed, sendEv, received, receiving>>

\* The context is cancelled or its deadline passes.
Cancel ==
    /\ ~ctxDone
    /\ ctxDone' = TRUE
    /\ UNCHANGED <<wireVars, est, tok, pcN, storing, pushPos, heapVars, streamVars, last, pcR, pcW, pcU,
                   doneClosed, chClosed, sendEv, received, receiving>>

\* The consumer leaves its receive loop (it matters from the reader's next send on).
StopReceiving ==
    /\ receiving
    /\ pcR = "send"
    /\ receiving' = FALSE
    /\ UNCHANGED <<wireVars, est, tok, pcN, storing, pushPos, heapVars, streamVars, last, pcR, pcW, pcU,
                   ctxDone, doneClosed, chClosed, sendEv, received>>

\* Close called by the consumer, possibly while the goroutines run: closed.Swap(true)
U_Swap ==
    /\ pcU = "idle"
    /\ closed' = TRUE
    /\ IF Swap(closed)
       THEN /\ pcU' = "idle"
            /\ last' = [op |-> "Close", ret |-> ErrNil, from |-> pos, reads |-> 0,
                        live |-> FALSE]
       ELSE /\ pcU' = "closing"
            /\ UNCHANGED last
    /\ UNCHANGED <<wireVars, est, tok, pcN, storing, pushPos, heapVars, pos, current, err, bodyCloses,
                   emitted, pcR, pcW, ctxDone, doneClosed, chClosed, sendEv,
                   received, receiving>>

\* The consumer's Close closes the body and returns.
U_BodyClose ==
    /\ pcU = "closing"
    /\ bodyCloses' = bodyCloses + 1
    /\ pcU' = "idle"
    /\ last' = [op |-> "Close", ret |-> ErrNil, from |-> pos, reads |-> 0, live |-> FALSE]
    /\ UNCHANGED <<wireVars, est, tok, pcN, storing, pushPos, heapVars, pos, current, err, closed,
                   emitted, pcR, pcW, ctxDone, doneClosed, chClosed, sendEv,
                   received, receiving>>

PushStep ==
    \/ Next \/ Event \/ Err \/ U_Swap \/ U_BodyClose
    \/ EventsWithContext \/ R_Start \/ R_Check \/ R_Read \/ R_StoreErr \/ R_Send
    \/ R_SendCancelled \/ R_CloseDone \/ R_CloseCh
    \/ W_Cancelled \/ W_BodyClose \/ W_Done
    \/ Cancel \/ StopReceiving

SpecPush == InitPush /\ [][PushStep]_vars

\* The push API alone, on short bodies: the call, the two goroutines, the
\* context, the consumer and its Close.
LiveLineSet == {Blank, DataA}

LiveLineLists == UNION {[1..n -> LiveLineSet] : n \in 0..MaxLiveLines}

InitLive ==
    /\ lines \in LiveLineLists
    /\ cut = FALSE
    /\ wend \in {ErrEOF, ErrRead, Stall}
    /\ wire = Flatten(lines, cut)
    /\ NewStream

\* The steps of the reader goroutine and of the watcher goroutine.
Reader ==
    \/ R_Start \/ R_Check \/ R_Read \/ R_StoreErr \/ R_Send \/ R_SendCancelled
    \/ R_CloseDone \/ R_CloseCh

Watcher == W_Cancelled \/ W_BodyClose \/ W_Done

LiveStep ==
    \/ EventsWithContext \/ Reader \/ Watcher
    \/ Cancel \/ StopReceiving \/ U_Swap \/ U_BodyClose

\* The Go scheduler runs every goroutine that can take a step: the reader, the
\* watcher, and a consumer's Close that has done its Swap.  Nothing is assumed
\* of the context, of the consumer's receiving or of the calls it makes.
SpecLive ==
    /\ InitLive /\ [][LiveStep]_vars
    /\ WF_vars(Reader) /\ WF_vars(Watcher) /\ WF_vars(U_BodyClose)

----------------------------------------------------------------------------
(* Client.Stream as a step: before the call nothing of a Stream exists.     *)

\* No Stream exists.
NoStream ==
    /\ lines = <<>> /\ cut = FALSE /\ wend = ErrEOF /\ wire = <<>>
    /\ pos = 1 /\ current = NilEvent /\ err = ErrNil /\ closed = FALSE
    /\ bodyCloses = 0 /\ emitted = <<>>
    /\ last = [op |-> "new", ret |-> FALSE, from |-> 1, reads |-> 0, live |-> FALSE]
    /\ pcR = "idle" /\ pcW = "none" /\ pcU = "idle" /\ pcN = "idle"
    /\ storing = ErrNil
    /\ ctxDone = FALSE /\ doneClosed = FALSE /\ chClosed = FALSE
    /\ sendEv = NilEvent /\ received = <<>> /\ receiving = TRUE
    /\ heap = <<>> /\ curPtr = 0 /\ recvPtr = <<>> /\ pushPos = 0

InitEstablish ==
    /\ est \in [call : Calls, called : {FALSE}, out : {NoOutcome}]
    /\ tok = NoTokenCalls
    /\ NoStream

(* Client.Stream *)
Stream ==
    /\ ~est.called
    /\ est' = [est EXCEPT !.called = TRUE, !.out = StreamResult(est.call)]
    /\ bodyCloses' = StreamResult(est.call).closes
    /\ last' = [op |-> "Stream", ret |-> StreamResult(est.call).stream, from |-> pos,
                reads |-> 0, live |-> FALSE]
    /\ UNCHANGED <<wireVars, tok, pcN, pos, current, err, closed, emitted, pushVars,
                   heapVars, pushPos>>

EstablishStep == Stream \/ Close

SpecEstablish == InitEstablish /\ [][EstablishStep]_vars

----------------------------------------------------------------------------
(* Client.SetToken, Client.ClearToken and Client.getToken, called from any   *)
(* number of goroutines.  Setter s and getter g each run one call at a time; *)
(* the assignment of a string is two writes (pointer and length), between    *)
(* which the field holds neither the old nor the new token.                  *)

Setters == 1..NSetters
Getters == 1..NGetters

\* The tokens callers pass to SetToken; ClearToken passes the empty one.
TokenArgs == {TokEmpty, TokA, TokB, TokBad, TokFF, TokDel}

\* The token NewClient leaves: empty, or the one given to WithToken.
InitToken ==
    /\ \E t \in {TokEmpty, TokInit} :
           tok = [token |-> t, first |-> t, started |-> {},
                  writer |-> 0, readers |-> {},
                  pcS |-> [s \in Setters |-> "idle"],
                  arg |-> [s \in Setters |-> TokEmpty],
                  pcG |-> [g \in Getters |-> "idle"],
                  got |-> [g \in Getters |-> NotRead]]
    /\ est = [call |-> ValidCall, called |-> FALSE, out |-> NoOutcome]
    /\ NoStream

\* SetToken(t), up to c.mu.Lock(): an invalid token is logged and dropped.
SetToken(s, t) ==
    /\ tok.pcS[s] = "idle"
    /\ tok' = IF t /= TokEmpty /\ ~isValidToken(t)
                 THEN tok
                 ELSE [tok EXCEPT !.pcS[s] = "lock", !.arg[s] = t,
                                  !.started = @ \cup {t}]

\* c.mu.Lock()
S_Lock(s) ==
    /\ tok.pcS[s] = "lock"
    /\ CanLock(tok)
    /\ tok' = [tok EXCEPT !.pcS[s] = "write", !.writer = s]

\* c.token = token, first write
S_Write(s) ==
    /\ tok.pcS[s] = "write"
    /\ tok' = [tok EXCEPT !.pcS[s] = "write2", !.token = TokTorn]

\* c.token = token, second write
S_Write2(s) ==
    /\ tok.pcS[s] = "write2"
    /\ tok' = [tok EXCEPT !.pcS[s] = "unlock", !.token = tok.arg[s]]

\* defer c.mu.Unlock()
S_Unlock(s) ==
    /\ tok.pcS[s] = "unlock"
    /\ tok' = [tok EXCEPT !.pcS[s] = "idle", !.arg[s] = TokEmpty, !.writer = 0]

\* getToken: c.mu.RLock()
G_RLock(g) ==
    /\ tok.pcG[g] = "idle"
    /\ CanRLock(tok)
    /\ tok' = [tok EXCEPT !.pcG[g] = "read", !.readers = @ \cup {g}]

\* getToken: return c.token
G_Read(g) ==
    /\ tok.pcG[g] = "read"
    /\ tok' = [tok EXCEPT !.pcG[g] = "runlock", !.got[g] = tok.token]

\* getToken: defer c.mu.RUnlock()
G_RUnlock(g) ==
    /\ tok.pcG[g] = "runlock"
    /\ tok' = [tok EXCEPT !.pcG[g] = "idle", !.readers = @ \ {g}]

TokenStep ==
    /\ \/ \E s \in Setters : \E t \in TokenArgs : SetToken(s, t)
       \/ \E s \in Setters : S_Lock(s)
       \/ \E s \in Setters : S_Write(s)
       \/ \E s \in Setters : S_Write2(s)
       \/ \E s \in Setters : S_Unlock(s)
       \/ \E g \in Getters : G_RLock(g)
       \/ \E g \in Getters : G_Read(g)
       \/ \E g \in Getters : G_RUnlock(g)
    /\ UNCHANGED <<wireVars, streamVars, last, pushVars, heapVars, pushPos, est, pcN>>

SpecToken == InitToken /\ [][TokenStep]_vars

----------------------------------------------------------------------------
(* The wire as the server wrote it: what each line of LineSet means, and    *)
(* the event blocks of a list of lines.  These definitions read the list    *)
(* `lines`, never the bytes, and use none of the parser's operators.        *)

IsDataLine(l) == l \in {DataA, DataBCR, DataEmpty, DataBulk}
IsBlankLine(l) == l \in {Blank, BlankCR}
IsTypeOrIdLine(l) == l \in {EventT, IdOne}

Payload(l) ==
    CASE l = DataA -> <<"a">>
      [] l = DataBCR -> <<"b">>
      [] l = DataEmpty -> <<>>
      [] l = DataBulk -> <<"B">>
      [] OTHER -> <<>>

\* Number of lines of the wire that end with their "\n".
NComplete == IF cut THEN Len(lines) - 1 ELSE Len(lines)

\* Position in the wire of the first byte of line i (of the end, for i past the last).
RECURSIVE LineStart(_)
LineStart(i) == IF i <= 1 THEN 1 ELSE LineStart(i - 1) + Len(lines[i - 1]) + 1

EndPos == Len(wire) + 1

\* The line that starts at position p; 0 if none does (the end of the wire).
LineAt(p) ==
    IF \E i \in 1..Len(lines) : LineStart(i) = p /\ p < EndPos
    THEN CHOOSE i \in 1..Len(lines) : LineStart(i) = p
    ELSE 0

\* Raw bytes of the complete lines i..j, their "\n" included.
RECURSIVE RawBytes(_, _)
RawBytes(i, j) ==
    IF i > j THEN 0 ELSE ByteLen(lines[i]) + 1 + RawBytes(i + 1, j)

\* The payloads of the data lines among lines i..j, joined by "\n".
RECURSIVE JoinData(_, _)
JoinData(i, j) ==
    IF i > j THEN <<>>
    ELSE IF ~IsDataLine(lines[j]) THEN JoinData(i, j - 1)
    ELSE IF \E k \in i..(j - 1) : IsDataLine(lines[k])
         THEN JoinData(i, j - 1) \o <<LF>> \o Payload(lines[j])
         ELSE Payload(lines[j])

HasDataIn(i, j) == \E k \in i..j : IsDataLine(lines[k])

\* First line of the block that line j belongs to: the line after the last blank
\* line before j.
BlockStart(j) ==
    LET bl == {k \in 1..(j - 1) : IsBlankLine(lines[k])} IN
    IF bl = {} THEN 1 ELSE (CHOOSE k \in bl : \A m \in bl : m <= k) + 1

\* The blank lines that end a block with data, and the end of input if it ends one.
BlankEnds == {j \in 1..NComplete : IsBlankLine(lines[j]) /\ HasDataIn(BlockStart(j), j - 1)}

EofEnds ==
    wend = ErrEOF /\ NComplete >= 1 /\ ~IsBlankLine(lines[NComplete])
    /\ HasDataIn(BlockStart(NComplete), NComplete)

\* The data-bearing blocks of the wire in wire order: for each its Data and the
\* position right after it.
RECURSIVE BlocksUpTo(_)
BlocksUpTo(j) ==
    IF j = 0 THEN <<>>
    ELSE IF j \in BlankEnds
    THEN Append(BlocksUpTo(j - 1),
                [data |-> JoinData(BlockStart(j), j - 1), at |-> LineStart(j + 1)])
    ELSE BlocksUpTo(j - 1)

WireBlocks ==
    IF EofEnds
    THEN Append(BlocksUpTo(NComplete),
                [data |-> JoinData(BlockStart(NComplete), NComplete), at |-> EndPos])
    ELSE BlocksUpTo(NComplete)

Delivered == [k \in 1..Len(emitted) |-> [data |-> emitted[k].ev.Data, at |-> emitted[k].at]]

IsPrefix(s, t) == Len(s) <= Len(t) /\ SubSeq(t, 1, Len(s)) = s

\* The last call was a Next() that found the stream open and without error.
LiveNext == last.op = "Next" /\ last.live

\* Next() returned false and left no error: the clean end of the iteration.
CleanEnd == LiveNext /\ ~last.ret /\ err = ErrNil

----------------------------------------------------------------------------
\* C1: the events of the successful Next() calls are the data-bearing blocks of
\* the wire, one per block, in wire order: at every moment the events delivered
\* so far are the first blocks of the wire, each read up to the end of its own
\* block, and when the iteration ends cleanly they are all of them.
C1_WireOrder ==
    /\ IsPrefix(Delivered, WireBlocks)
    /\ CleanEnd => Delivered = WireBlocks

\* Two events were delivered and the iteration ended cleanly.
C1_Witness == CleanEnd /\ Len(emitted) = 2 /\ emitted[1].ev.Data /= emitted[2].ev.Data


----------------------------------------------------------------------------
\* Lines i..j-1 are N >= 1 data lines and line j is the blank line after them.
PureDataBlock(i, j) ==
    /\ 1 <= i /\ i < j /\ j <= NComplete
    /\ IsBlankLine(lines[j])
    /\ \A k \in i..(j - 1) : IsDataLine(lines[k])

\* The events delivered by the call that started at position p.
DeliveredSince(p) == {k \in 1..Len(emitted) : emitted[k].at > p}

\* C2: a block of N >= 1 consecutive data lines followed by a blank line yields
\* exactly one event, whose Data is the N payloads joined by "\n" in order, empty
\* payloads included.  (a) every event delivered for such a block has that Data;
\* (b) a Next() that starts at such a block, the block within maxEventSize,
\* returns true with that event, read up to the blank line, and delivers no other.
C2_JoinedData ==
    /\ \A j \in 1..NComplete : \A k \in 1..Len(emitted) :
          (PureDataBlock(BlockStart(j), j) /\ emitted[k].at = LineStart(j + 1))
             => emitted[k].ev.Data = JoinData(BlockStart(j), j - 1)
    /\ \A j \in 1..NComplete :
          (/\ LiveNext
           /\ PureDataBlock(LineAt(last.from), j)
           /\ RawBytes(LineAt(last.from), j) <= maxEventSize)
             => /\ last.ret
                /\ pos = LineStart(j + 1)
                /\ current.Data = JoinData(LineAt(last.from), j - 1)
                /\ Cardinality(DeliveredSince(last.from)) = 1

\* Next() has just returned the event of a block of two data lines, the first of
\* them with an empty payload.
C2_Witness ==
    /\ LiveNext /\ last.ret
    /\ PureDataBlock(LineAt(last.from), LineAt(last.from) + 2)
    /\ lines[LineAt(last.from)] = DataEmpty
    /\ lines[LineAt(last.from) + 1] = DataBCR
    /\ current.Data = <<LF, "b">>

----------------------------------------------------------------------------
\* C3: readEvent returns an event only (1) when it has read a blank line after at
\* least one data line read by the same call, or (2) when the read returned
\* end-of-input after at least one data line read by the same call; every
\* ReadString of the call before that one read a line that is neither.
C3_EmitOnlyAtTerminator ==
    (last.op = "Next" /\ last.ret) =>
        LET i == LineAt(last.from) IN
        /\ i >= 1
        /\ \/ \E j \in i..NComplete :
                 /\ IsBlankLine(lines[j])
                 /\ HasDataIn(i, j - 1)
                 /\ pos = LineStart(j + 1)
                 /\ last.reads = j - i + 1
           \/ /\ wend = ErrEOF
              /\ HasDataIn(i, NComplete)
              /\ pos = EndPos
              /\ last.reads = NComplete - i + 2

\* An event was returned at end-of-input, with the unterminated rest of the wire
\* read and dropped.
C3_Witness ==
    /\ last.op = "Next" /\ last.ret
    /\ cut /\ pos = EndPos
    /\ last.reads = NComplete - LineAt(last.from) + 2

----------------------------------------------------------------------------
\* No blank line at or after line i ends a block with data.
NoEventEndFrom(i) == \A j \in BlankEnds : j < i

\* The wire ends at end-of-input right after a complete data line.
TrailingData ==
    wend = ErrEOF /\ ~cut /\ NComplete >= 1 /\ IsDataLine(lines[NComplete])

SalvagedAtEnd == {k \in 1..Len(emitted) : emitted[k].at = EndPos}

\* C4: when end-of-input comes right after one or more data lines with no blank
\* line, (a) the Next() that reads them (within maxEventSize) returns true with
\* their event, and (b) the Next() after it returns false with Err() nil; the
\* event is delivered once.
C4_SalvageOnce ==
    /\ (/\ LiveNext /\ TrailingData
        /\ LineAt(last.from) >= 1
        /\ NoEventEndFrom(LineAt(last.from))
        /\ RawBytes(LineAt(last.from), NComplete) <= maxEventSize)
          => /\ last.ret
             /\ pos = EndPos
             /\ current.Data = JoinData(BlockStart(NComplete), NComplete)
             /\ Cardinality(SalvagedAtEnd) = 1
    /\ (LiveNext /\ TrailingData /\ last.from = EndPos /\ SalvagedAtEnd /= {})
          => /\ ~last.ret
             /\ err = ErrNil
             /\ Cardinality(SalvagedAtEnd) = 1

\* The Next() after the salvaged event has returned false.
C4_Witness ==
    /\ LiveNext /\ TrailingData /\ last.from = EndPos
    /\ SalvagedAtEnd /= {} /\ ~last.ret
    /\ Len(emitted[Len(emitted)].ev.Data) >= 3

----------------------------------------------------------------------------
\* Blank lines that end a block with event: or id: lines and no data: line.
DataLessEnds ==
    {j \in 1..NComplete :
        /\ IsBlankLine(lines[j])
        /\ ~HasDataIn(BlockStart(j), j - 1)
        /\ \E k \in BlockStart(j)..(j - 1) : IsTypeOrIdLine(lines[k])}

\* The wire ends at end-of-input in a block with event: or id: lines and no data:
\* line.
TrailingDataLess ==
    /\ wend = ErrEOF /\ Len(lines) >= 1 /\ ~IsBlankLine(lines[Len(lines)])
    /\ \E k \in BlockStart(Len(lines))..Len(lines) : IsTypeOrIdLine(lines[k])
    /\ \A k \in BlockStart(Len(lines))..Len(lines) : ~IsDataLine(lines[k])

\* C5: a block with event: or id: lines and no data: line is never delivered:
\* (a) no event ends at the blank line of such a block; (b) when end-of-input
\* follows such a block, the Next() that reaches it (within maxEventSize)
\* returns false and Err() is nil, and nothing is delivered at the end.
C5_DataLessDropped ==
    /\ \A j \in DataLessEnds : \A k \in 1..Len(emitted) : emitted[k].at /= LineStart(j + 1)
    /\ TrailingDataLess => SalvagedAtEnd = {}
    /\ (/\ LiveNext /\ TrailingDataLess
        /\ \/ last.from = EndPos
           \/ /\ LineAt(last.from) >= 1
              /\ NoEventEndFrom(LineAt(last.from))
              /\ RawBytes(LineAt(last.from), NComplete) <= maxEventSize)
          => ~last.ret /\ err = ErrNil

\* Next() has read a block of an event: and an id: line up to end-of-input and
\* returned false.
C5_Witness ==
    /\ LiveNext /\ TrailingDataLess /\ ~last.ret
    /\ last.from < EndPos /\ pos = EndPos
    /\ Len(lines) >= 2
    /\ lines[Len(lines)] = IdOne /\ lines[Len(lines) - 1] = EventT


----------------------------------------------------------------------------
\* C6: once Close() has been called or Err() is non-nil, every later Next()
\* returns false and reads nothing from the byte stream: the reader's position,
\* the current event and the delivered events stay as they were.
C6_StickyTerminal ==
    [][((closed \/ err /= ErrNil) /\ last'.op = "Next")
         => /\ ~last'.ret
            /\ last'.reads = 0
            /\ pos' = pos
            /\ current' = current
            /\ emitted' = emitted]_vars

\* Next() was called after a read error, with bytes of the wire still unread
\* by the parser, and returned false without reading.
C6_Witness ==
    /\ last.op = "Next" /\ ~last.live /\ ~last.ret /\ last.reads = 0
    /\ err = ErrRead /\ ~closed

----------------------------------------------------------------------------
\* C8: when the read of the byte stream fails with an error other than
\* end-of-input before the in-progress block is ended by a blank line, Next()
\* returns false, Err() is that error and the call delivers no event, also when
\* data: lines of the block had been read.
C8_ReadErrorNoEvent ==
    (/\ LiveNext /\ wend = ErrRead
     /\ \/ last.from = EndPos
        \/ /\ LineAt(last.from) >= 1
           /\ NoEventEndFrom(LineAt(last.from))
           /\ RawBytes(LineAt(last.from), NComplete) <= maxEventSize)
      => /\ ~last.ret
         /\ err = ErrRead
         /\ pos = EndPos
         /\ DeliveredSince(last.from) = {}

\* The read failed after two data lines of the block had been read.
C8_Witness ==
    /\ LiveNext /\ wend = ErrRead /\ err = ErrRead /\ ~last.ret
    /\ LineAt(last.from) >= 1
    /\ NComplete >= LineAt(last.from) + 1
    /\ IsDataLine(lines[NComplete]) /\ IsDataLine(lines[NComplete - 1])
    /\ last.reads = NComplete - LineAt(last.from) + 2

----------------------------------------------------------------------------
\* Some line k at or after line i brings the raw bytes of lines i..k over
\* maxEventSize before a blank line has ended an event with data.
OversizeFrom(i) ==
    \E k \in i..NComplete :
        /\ RawBytes(i, k) > maxEventSize
        /\ \A j \in BlankEnds : j >= i => j >= k

\* C9: if the raw bytes of the lines read while assembling one event exceed
\* maxEventSize, Next() returns false, delivers no event and Err() is the
\* "event exceeds maximum size" error; afterwards the error stays and no Next()
\* delivers an event.
C9_OversizeIsError ==
    /\ []((LiveNext /\ LineAt(last.from) >= 1 /\ OversizeFrom(LineAt(last.from)))
            => /\ ~last.ret
               /\ err = ErrSize
               /\ DeliveredSince(last.from) = {})
    /\ [][err = ErrSize
            => /\ err' = ErrSize
               /\ emitted' = emitted
               /\ (last'.op = "Next" => ~last'.ret)]_vars

\* Two data lines of one block exceeded the maximum, and a later Next() was
\* called with the rest of the wire unread.
C9_Witness ==
    /\ err = ErrSize
    /\ last.op = "Next" /\ ~last.live
    /\ Len(lines) = MaxLines /\ lines[1] = DataBulk /\ lines[2] = DataA
    /\ pos = LineStart(3) /\ pos < EndPos

----------------------------------------------------------------------------
\* C10: the size ceiling is per event block: the size-limit error occurs only
\* if the lines of one block of the wire (a run of lines up to and including its
\* blank line) exceed maxEventSize, whatever earlier events or skipped data-less
\* blocks came before.
C10_CeilingPerBlock ==
    err = ErrSize => \E k \in 1..NComplete : RawBytes(BlockStart(k), k) > maxEventSize

----------------------------------------------------------------------------
\* C7: the error slot is a one-way latch: under every interleaving of Next,
\* Event, Err and Close calls with the reader goroutine, the watcher and the
\* cancellation of EventsWithContext, once Stream.err is non-nil no step changes
\* it, and every non-nil error that Err() returns is that value of Stream.err:
\* Err() returns the same error from then on.
C7_ErrLatch ==
    [][/\ err /= ErrNil => err' = err
       /\ (last'.op = "Err" /\ last'.ret /= ErrNil) => last'.ret = err']_vars

----------------------------------------------------------------------------
\* C11.  However many times Close is called, one call after another or the
\* consumer's call racing the watcher's, resp.Body is closed at most once, it
\* is closed only on a stream marked closed, and once no Close is between its
\* Swap and its Body.Close a closed stream's body was closed exactly once.  A
\* Close that finds the stream already closed returns nil at once and changes
\* nothing of the stream.
C11_BodyClosedOnce ==
    /\ [](/\ bodyCloses <= 1
          /\ (bodyCloses = 1 => closed)
          /\ ((closed /\ pcU /= "closing" /\ pcW /= "closing") => bodyCloses = 1))
    /\ [][(U_Swap /\ closed) =>
            /\ UNCHANGED streamVars
            /\ pcU' = "idle"
            /\ last'.op = "Close" /\ last'.ret = ErrNil]_vars

\* The watcher took <-ctx.Done() and ran its Close to the end (done is still
\* open), and the consumer's own Close has returned as well: one body close.
C11_Witness ==
    /\ ctxDone /\ pcW = "done" /\ ~doneClosed
    /\ pcU = "idle" /\ last.op = "Close"
    /\ closed /\ bodyCloses = 1

----------------------------------------------------------------------------
\* C12.  Once the context of a started EventsWithContext is cancelled, the
\* reader goroutine eventually exits and the event channel is closed - also
\* when the reader is blocked in a read on a body that sends nothing more, and
\* when it is blocked handing an event to a consumer that stopped receiving.
C12_CancelEndsReader == (ctxDone /\ pcR /= "idle") ~> (chClosed /\ pcR = "done")

\* The body sends nothing more and the reader was blocked in its read; after
\* the cancellation the watcher closed the body, the read failed and the reader
\* closed the channel.
C12_Witness ==
    /\ wend = Stall /\ pos > Len(wire)
    /\ ctxDone /\ err = ErrClosed
    /\ chClosed /\ pcR = "done"

----------------------------------------------------------------------------
\* C13.  Whenever the reader goroutine leaves its loop - end of stream, read
\* error, cancellation or Close - the watcher goroutine eventually terminates:
\* it does not stay blocked in its select once the channel is closed.
C13_WatcherEnds == (pcR = "exit") ~> (pcW = "done")

\* The stream ended by itself, with no cancellation and no Close, the channel
\* is closed and the watcher has returned through <-done.
C13_Witness ==
    /\ chClosed /\ pcR = "done"
    /\ ~ctxDone /\ ~closed
    /\ pcW = "done"

----------------------------------------------------------------------------
\* C14.  An event that was handed out is never changed by a later advance.  No
\* step writes to a StreamEvent object that exists - so the object behind a
\* pointer Event() returned, and the object behind a pointer received from the
\* channel, keep their Type, Data and ID through every later Next() - and the
\* object behind the k-th pointer received holds the k-th event sent.
C14_HandedEventsStable ==
    /\ [](/\ curPtr \in 0..Len(heap)
          /\ (curPtr /= 0 => heap[curPtr] = current)
          /\ Len(recvPtr) = Len(received)
          /\ \A k \in 1..Len(recvPtr) : heap[recvPtr[k]] = received[k])
    /\ [][\A a \in 1..Len(heap) : heap'[a] = heap[a]]_vars

\* The consumer holds the pointer of the first event of the channel and the
\* stream has since advanced to an event with another content; Stream.current
\* is a third object.
C14_Witness ==
    /\ Len(recvPtr) >= 1
    /\ Len(emitted) >= 2
    /\ current /= received[1]
    /\ curPtr /= recvPtr[1]
    /\ heap[recvPtr[1]] = emitted[1].ev

----------------------------------------------------------------------------
\* What repeated Next()/Event() calls produce on the bytes w ending in
\* e, from position p on: the events of the calls up to the first that fails.
RECURSIVE PullSeq(_, _, _)
PullSeq(w, e, p) ==
    LET r == readEvent(w, e, p) IN
    IF r.err /= ErrNil THEN <<>> ELSE <<r.event>> \o PullSeq(w, e, r.pos)

\* C15.  The events received from the channel of Events()/EventsWithContext()
\* are always a prefix of what repeated Next()/Event() calls would produce on
\* the same bytes - cancellation or Close never yields an event the pull API
\* would not, nor a truncated one - and once the channel is closed with the
\* context not cancelled, Close not called and no error stored, they are that
\* whole sequence.
C15_PushRefinesPull ==
    pushPos /= 0 =>
        /\ received /= <<>> => IsPrefix(received, PullSeq(wire, wend, pushPos))
        /\ (chClosed /\ ~ctxDone /\ ~closed /\ err = ErrNil) =>
              received = PullSeq(wire, wend, pushPos)

\* The consumer got an event, then the context was cancelled and the channel
\* closed although the bytes hold a further event: a proper prefix.
C15_Witness ==
    /\ pushPos /= 0
    /\ chClosed /\ ctxDone
    /\ Len(received) >= 1
    /\ Len(received) < Len(PullSeq(wire, wend, pushPos))

----------------------------------------------------------------------------
(* Client.Stream: the claims read the inputs of the call and this table of  *)
(* the Content-Type values that begin with text/event-stream.               *)

BeginsWithEventStream(ct) == ct \in {CtSSE, CtSSECharset}

\* An HTTP request was issued and the transport returned a response.
TransportSucceeded == est.out.requests = 1 /\ est.call.doErr = DoOK

\* C16.  A Client.Stream call returns exactly one of a non-nil Stream and a
\* non-nil error, and it returns the Stream exactly when the request was valid,
\* the transport succeeded, the status was 200 and the Content-Type begins
\* with text/event-stream.
C16_StreamXorError ==
    est.called =>
        /\ est.out.stream <=> est.out.error.nil
        /\ est.out.stream <=>
              /\ est.call.req = ReqOK
              /\ TransportSucceeded
              /\ est.call.status = 200
              /\ BeginsWithEventStream(est.call.ctype)

\* A Stream was returned for a response whose Content-Type carries a
\* parameter after text/event-stream.
C16_Witness ==
    /\ est.called /\ est.call.ctype = CtSSECharset
    /\ est.out.stream /\ est.out.error.nil

\* C17.  When the server answers with a status other than 200, whatever the
\* Content-Type, the error has Code STREAM_ERROR and the Status of the
\* response, and its message holds the leading bytes of the body, at most
\* maxErrorBodySize (4096) of them.
C17_StreamErrorBounded ==
    (est.called /\ est.call.req = ReqOK /\ TransportSucceeded /\ est.call.status /= 200) =>
        /\ ~est.out.stream
        /\ est.out.error.Code = "STREAM_ERROR"
        /\ est.out.error.Status = est.call.status
        /\ est.out.error.body <= 4096
        /\ est.out.error.body <= est.call.bodyLen
        /\ (est.call.bodyLen <= 4096 => est.out.error.body = est.call.bodyLen)

\* A 404 with a body longer than the limit and a Content-Type that is not an
\* event stream: STREAM_ERROR with the first 4096 bytes.
C17_Witness ==
    /\ est.called /\ est.call.status = 404 /\ est.call.ctype = CtPlain
    /\ est.call.bodyLen > 4096
    /\ est.out.error.Code = "STREAM_ERROR" /\ est.out.error.body = 4096

\* C18.  When the server answers 200 with a Content-Type that does not begin
\* with text/event-stream, the error has Code INVALID_RESPONSE, no Stream is
\* returned and no byte of the body is read.
C18_InvalidResponse ==
    (/\ est.called /\ est.call.req = ReqOK /\ TransportSucceeded
     /\ est.call.status = 200 /\ ~BeginsWithEventStream(est.call.ctype)) =>
        /\ ~est.out.stream
        /\ est.out.error.Code = "INVALID_RESPONSE"
        /\ est.out.bodyRead = 0

\* A 200 whose Content-Type is only the beginning of text/event-stream.
C18_Witness ==
    /\ est.called /\ est.call.status = 200 /\ est.call.ctype = CtShort
    /\ est.out.requests = 1
    /\ est.out.error.Code = "INVALID_RESPONSE"

\* C19.  A call with a nil request or an empty Prompt returns a BAD_REQUEST
\* error and no Stream, and issues no HTTP request.
C19_BadRequestNoHTTP ==
    (est.called /\ est.call.req \in {ReqNil, ReqNoPrompt}) =>
        /\ ~est.out.stream
        /\ est.out.error.Code = "BAD_REQUEST"
        /\ est.out.requests = 0

\* An empty Prompt on a call for which the server would have answered with
\* an event stream.
C19_Witness ==
    /\ est.called /\ est.call.req = ReqNoPrompt
    /\ est.call.doErr = DoOK /\ est.call.status = 200 /\ est.call.ctype = CtSSE
    /\ est.out.error.Code = "BAD_REQUEST" /\ est.out.requests = 0

----------------------------------------------------------------------------
(* Type and ID as the server wrote them: the value of the last event: line  *)
(* and of the last id: line among lines i..j, empty when there is none.     *)

IsTypeLine(l) == l = EventT
IsIdLine(l) == l = IdOne

TypePayload(l) == IF l = EventT THEN <<"t">> ELSE <<>>
IdPayload(l) == IF l = IdOne THEN <<"1">> ELSE <<>>

LastTypeIn(i, j) ==
    LET ks == {k \in i..j : IsTypeLine(lines[k])} IN
    IF ks = {} THEN <<>> ELSE TypePayload(lines[CHOOSE k \in ks : \A m \in ks : m <= k])

LastIdIn(i, j) ==
    LET ks == {k \in i..j : IsIdLine(lines[k])} IN
    IF ks = {} THEN <<>> ELSE IdPayload(lines[CHOOSE k \in ks : \A m \in ks : m <= k])

\* C20.  The Type and the ID of an emitted event are the values of the last
\* event: line and of the last id: line of its own block - the lines after the
\* previous blank line, before or after the data lines - and are empty when
\* the block has no such line.
C20_TypeIdOfOwnBlock ==
    \A k \in 1..Len(emitted) :
        /\ \A j \in BlankEnds :
              emitted[k].at = LineStart(j + 1) =>
                  /\ emitted[k].ev.Type = LastTypeIn(BlockStart(j), j - 1)
                  /\ emitted[k].ev.ID = LastIdIn(BlockStart(j), j - 1)
        /\ (EofEnds /\ emitted[k].at = EndPos) =>
              /\ emitted[k].ev.Type = LastTypeIn(BlockStart(NComplete), NComplete)
              /\ emitted[k].ev.ID = LastIdIn(BlockStart(NComplete), NComplete)

----------------------------------------------------------------------------
\* The field of an event that lines with the given prefix set.
FieldOf(ev, prefix) ==
    IF prefix = pData THEN ev.Data ELSE IF prefix = pEvent THEN ev.Type ELSE ev.ID

\* C21.  The value of a data:, event: or id: line is the text after the colon
\* with exactly one leading space removed if there is one: written with k
\* spaces after the colon, the value is the text after k - 1 spaces for k >= 1
\* and the bare text for k = 0, so zero and one space give the same value.
C21_OneSpaceStripped ==
    \A prefix \in FieldPrefixes : \A k \in 0..MaxSpaces : \A text \in FieldTexts :
        \A e \in 1..Len(emitted) :
            lines[1] = FieldLine(prefix, k, text) =>
                FieldOf(emitted[e].ev, prefix) =
                    Spaces(IF k = 0 THEN 0 ELSE k - 1) \o text

\* The event of an id: line written with two spaces was emitted: its ID
\* keeps one of them.
C21_Witness ==
    /\ lines[1] = FieldLine(pId, 2, <<"a">>)
    /\ Len(emitted) = 1
    /\ emitted[1].ev.ID = <<" ", "a">>

----------------------------------------------------------------------------
\* The events handed to the consumer so far: those of its own Next() calls
\* made before EventsWithContext, and those it received from the channel.
PulledBeforePush == Cardinality({k \in 1..Len(emitted) : emitted[k].at <= pushPos})

\* C22.  A nil Err() after the iteration stopped means that every event of
\* the wire was delivered: when Next() has returned false, or the events
\* channel is closed, and events of the wire remain undelivered, Err() is
\* non-nil.
C22_NilErrMeansAllDelivered ==
    err = ErrNil =>
        /\ (pushPos = 0 /\ last.op = "Next" /\ ~last.ret) =>
              Len(emitted) >= Len(WireBlocks)
        /\ chClosed => PulledBeforePush + Len(received) >= Len(WireBlocks)

----------------------------------------------------------------------------
(* The token: the goroutines inside a critical section of Client.mu.         *)

Writing == {s \in Setters : tok.pcS[s] \in {"write", "write2", "unlock"}}
Reading == {g \in Getters : tok.pcG[g] \in {"read", "runlock"}}

\* C23: every getToken returns the token the client was built with or the
\* argument of a SetToken or ClearToken call that has started; at most one
\* writer is in its critical section and no reader is in one together with
\* a writer, so no read returns a half-written token.
C23_TokenReadsAreWrites ==
    /\ \A g \in Getters :
           tok.got[g] \in {NotRead, tok.first} \cup tok.started
    /\ Cardinality(Writing) <= 1
    /\ Writing /= {} => Reading = {}

\* Two getters hold the read lock together, after one of them has read a
\* token that a SetToken call wrote over the initial one.
C23_Witness ==
    /\ Cardinality(Reading) = 2
    /\ \E g \in Getters : tok.got[g] = TokA /\ tok.first /= TokA
    /\ TokB \in tok.started

----------------------------------------------------------------------------
\* C24: a request that Client.Stream sends is bounded by the client's stream
\* timeout when that is set and the context has no deadline, and by the
\* context's deadline alone when the context has one.
C24_StreamTimeoutApplied ==
    (est.called /\ est.out.requests = 1) =>
        est.out.bound =
            IF est.call.ctxDeadline = NoDeadline
            THEN est.call.streamTimeout
            ELSE est.call.ctxDeadline

----------------------------------------------------------------------------
\* A response came back from httpClient.Do, with or without an error.
ResponseReceived ==
    /\ est.call.req = ReqOK /\ est.call.urlOK /\ ~est.call.ctxNil
    /\ est.call.doErr = DoOK \/ est.call.respOnErr

\* C25.  A Client.Stream call that received a response and returns an error
\* has closed the response body exactly once; a call that returns a Stream has
\* not closed it, and afterwards the body is closed exactly when the Stream
\* has been closed, once.
C25_BodyClosedOnErrorPaths ==
    (est.called /\ ResponseReceived) =>
        /\ ~est.out.error.nil => bodyCloses = 1
        /\ est.out.error.nil => bodyCloses = (IF closed THEN 1 ELSE 0)

\* A transport error that came with a response, whose body was closed.
C25_Witness ==
    /\ est.called /\ est.call.req = ReqOK /\ ~est.call.ctxNil
    /\ est.call.doErr = DoFailed /\ est.call.respOnErr
    /\ ~est.out.error.nil
    /\ bodyCloses = 1

----------------------------------------------------------------------------
\* C26.  A Next() that returns false leaves the current-event slot as it was,
\* the same event at the same address, and that is nil while no Next() has
\* succeeded; Event() returns the slot.
C26_FailedNextKeepsCurrent ==
    [][/\ (last'.op = "Next" /\ ~last'.ret) =>
              /\ current' = current
              /\ curPtr' = curPtr
              /\ emitted = <<>> => (current' = NilEvent /\ curPtr' = 0)
       /\ last'.op = "Event" => (last'.ret = current /\ current' = current)]_vars

\* Next() has just failed on a read error after an earlier Next() succeeded,
\* and the earlier event is still the current one.
C26_Witness ==
    /\ last.op = "Next" /\ ~last.ret /\ last.live
    /\ err = ErrRead
    /\ current /= NilEvent
    /\ Len(emitted) >= 1

----------------------------------------------------------------------------
(* Ignored lines: the body as it would be without them.                      *)

NotIgnored(l) == l \notin IgnoredSet

BaseWire == Flatten(SelectSeq(lines, NotIgnored), cut)

EventsOf(em) == [i \in 1..Len(em) |-> em[i].ev]

\* Every ignored line of the body stands inside an event block: a data:,
\* event: or id: line precedes it with no blank line between.
InsertedInsideBlocks ==
    \A i \in 1..Len(lines) :
        lines[i] \in IgnoredSet =>
            \E j \in 1..(i - 1) :
                /\ lines[j] \notin IgnoredSet
                /\ \A k \in j..i : lines[k] /= Blank

\* C27 as stated: with retry:, comment and unknown lines inserted inside
\* event blocks, the events emitted are those of the body without the inserted
\* lines - the same Type, Data and ID, and the same blocks emitted.
C27_IgnoredLinesNoEffect ==
    InsertedInsideBlocks =>
        /\ IsPrefix(EventsOf(emitted), PullSeq(BaseWire, wend, 1))
        /\ (last.op = "Next" /\ ~last.ret /\ ~closed) =>
              EventsOf(emitted) = PullSeq(BaseWire, wend, 1)

\* C27, amended: the same, unless the inserted lines bring the bytes read by
\* one Next() above maxEventSize, which ends the iteration with the size
\* error.
C27_IgnoredLinesNoEffectWithinSize ==
    InsertedInsideBlocks =>
        /\ IsPrefix(EventsOf(emitted), PullSeq(BaseWire, wend, 1))
        /\ (last.op = "Next" /\ ~last.ret /\ ~closed /\ err /= ErrSize) =>
              EventsOf(emitted) = PullSeq(BaseWire, wend, 1)

\* An event: line, a retry: line and a data: line ended by end-of-input gave
\* the event with Type t and Data a, and the iteration has ended.
C27_Witness ==
    /\ lines = <<EventT, Retry, DataA>> /\ ~cut
    /\ last.op = "Next" /\ ~last.ret /\ ~closed
    /\ Len(emitted) = 1
    /\ emitted[1].ev.Type = <<"t">> /\ emitted[1].ev.Data = <<"a">>

----------------------------------------------------------------------------
\* The lines that begin before position p of the wire.
LinesBefore(p) == {i \in 1..Len(lines) : LineStart(i) < p}

\* C28.  A block of event: and id: lines that a blank line ends without a data:
\* line leaves nothing behind: in every event emitted after that blank line, a
\* Type or ID that is not empty is the value of an event: or id: line that
\* follows the blank line.
C28_DataLessBlockNoEffect ==
    \A j \in DataLessEnds : \A k \in 1..Len(emitted) :
        emitted[k].at > LineStart(j + 1) =>
            /\ emitted[k].ev.Type /= <<>> =>
                  \E m \in LinesBefore(emitted[k].at) :
                      m > j /\ IsTypeLine(lines[m])
                            /\ TypePayload(lines[m]) = emitted[k].ev.Type
            /\ emitted[k].ev.ID /= <<>> =>
                  \E m \in LinesBefore(emitted[k].at) :
                      m > j /\ IsIdLine(lines[m])
                            /\ IdPayload(lines[m]) = emitted[k].ev.ID

----------------------------------------------------------------------------
\* The cancellation watcher has returned from Close(): the context is done,
\* the closed flag is set and the body is closed.
WatcherClosed == pcW = "done" /\ ctxDone /\ closed /\ bodyCloses >= 1

\* C29.  Once the watcher's Close() has completed, the reader goroutine sends
\* no further event on the channel.
C29_NoSendAfterWatcherClose ==
    [][WatcherClosed => received' = received]_vars

----------------------------------------------------------------------------
\* The data: payloads the wire holds up to end-of-input in its last block, the
\* one of a last line cut off by end-of-input included.
TrailingDataAny ==
    /\ wend = ErrEOF /\ Len(lines) >= 1
    /\ ~IsBlankLine(lines[Len(lines)])
    /\ HasDataIn(BlockStart(Len(lines)), Len(lines))

\* C30.  When end-of-input ends a block that holds data: lines, the last of
\* them possibly without its newline, the iteration that ends cleanly has
\* delivered an event at the end of the wire whose Data joins all of the
\* block's payloads.
C30_SalvageKeepsCutLine ==
    (/\ TrailingDataAny /\ CleanEnd
     /\ RawBytes(1, Len(lines)) <= maxEventSize) =>
        /\ Cardinality(SalvagedAtEnd) = 1
        /\ \A k \in SalvagedAtEnd :
              emitted[k].ev.Data = JoinData(BlockStart(Len(lines)), Len(lines))

====
